---- MODULE Spec2Model ----
(***************************************************************************)
(* The local image catalog of deepin-desktop-bg: ImageManager              *)
(* (src/src/core/image_manager.py) over a file system, with its catalog    *)
(* (metadata['wallpapers']), its duplicate index (known_hashes), its       *)
(* counters (metadata['stats']) and the persisted record (.metadata.json). *)
(***************************************************************************)
EXTENDS Integers, Sequences, FiniteSets, TLC

(* ------------------------------ bounds -------------------------------- *)

\* store_wallpaper is not called once total_downloads has reached this.
MaxDownloads == 3

\* cleanup_old_wallpapers is called with max_total in 0..MaxKeep.
MaxKeep == 2

\* delete_multiple_wallpapers is called with lists of 0..MaxIds ids.
MaxIds == 2

(* ------------------------------ values -------------------------------- *)

\* Python's None, and a present Optional value.
None == <<>>

Some(x) == <<x>>

\* The keys of self.directories.
Directories == {"wallhaven", "ai_generated", "community", "public_domain"}

\* The source_type arguments tried: two keys of self.directories and the
\* 'curated' of store_wallpaper's docstring, which is no key of it.
SourceTypes == {"wallhaven", "community", "curated"}

\* The file contents (byte strings): "A" and "C" decode to images of
\* wallpaper size, "B" to a small image, "W" to a very wide one, and "X" is
\* not an image at all.  Contents are those store_wallpaper is called with.
Contents == {"A", "B", "C"}

Decodable(c) == c # "X"

\* The sizes of more images, at the edges of the resolution and aspect
\* ratio checks: width and height.
Sizes == [N |-> <<1279, 720>>,  L |-> <<1280, 719>>,  M |-> <<1280, 720>>,
          S |-> <<100, 1000>>,  T |-> <<1280, 2560>>, U |-> <<1280, 2561>>,
          V |-> <<2160, 720>>,  Y |-> <<2161, 720>>,  Z |-> <<2520, 720>>,
          Q |-> <<2521, 720>>,  K |-> <<1920, 1080>>, G |-> <<3840, 2160>>]

Width(c) == CASE c = "A" -> 1920 [] c = "B" -> 640 [] c = "C" -> 2560
              [] c = "W" -> 4000 [] c \in DOMAIN Sizes -> Sizes[c][1]
              [] OTHER -> 0

Height(c) == CASE c = "A" -> 1080 [] c = "B" -> 480 [] c = "C" -> 1440
               [] c = "W" -> 1000 [] c \in DOMAIN Sizes -> Sizes[c][2]
               [] OTHER -> 0

\* File names are a stem followed by the numeric suffixes store_wallpaper
\* appended: <<"a">> is a.jpg, <<"a", 1>> is a_1.jpg.
SourceNames == {<<"a">>}

\* The source files handed to store_wallpaper: a path that may not exist,
\* its name and its bytes.
SourceFiles == [exists : {TRUE}, name : SourceNames, content : Contents]
                 \cup [exists : {FALSE}, name : SourceNames, content : {"B"}]

\* The metadata arguments tried: with and without a 'wallpaper_id'.
WallpaperIds == {"abc123"}

\* Text that is searched (file names, tags, categories, prompts, queries)
\* is a sequence of characters; str.lower() on the letters used.
Lower(ch) == CASE ch = "A" -> "a" [] ch = "S" -> "s" [] ch = "U" -> "u"
               [] OTHER -> ch

ToLower(text) == [i \in 1..Len(text) |-> Lower(text[i])]

\* needle in haystack, on str
Contains(haystack, needle) ==
    \E i \in 0..(Len(haystack) - Len(needle)) :
        SubSeq(haystack, i + 1, i + Len(needle)) = needle

\* The metadata dicts tried.  The gallery's download worker stores a
\* 'wallpaper_id' and neither tags, category nor prompt (metadata.get then
\* gives [] and ''); the other carries the tag 'Sun', the category 'Sea'
\* and the prompt 'sunset'.
GalleryMetadata(w) ==
    [wallpaper_id |-> Some(w), tags |-> <<>>, category |-> <<>>, prompt |-> <<>>]

TaggedMetadata ==
    [wallpaper_id |-> None,
     tags |-> << <<"S", "u", "n">> >>,
     category |-> <<"S", "e", "a">>,
     prompt |-> <<"s", "u", "n", "s", "e", "t">>]

Metadatas == {GalleryMetadata(w) : w \in WallpaperIds} \cup {TaggedMetadata}

\* The (source_type, metadata) arguments tried: under 'wallhaven' with a
\* 'wallpaper_id', as the gallery's download worker stores, and under the
\* other source types without one, as the generator worker stores.
StoreKinds == {k \in SourceTypes \X Metadatas :
                  k[1] = "wallhaven" <=> k[2].wallpaper_id # None}

(* ------------------------------- state -------------------------------- *)

VARIABLES
    files,          \* the files under the category directories: path -> bytes
    metadata,       \* self.metadata: [wallpapers, stats]
    known_hashes,   \* self.known_hashes
    disk,           \* .metadata.json: None, or Some(what was last written)
    unwritable,     \* what the process has no permission to write: category
                    \* directories and the metadata file
    now,            \* the wall clock (datetime.now())
    call,           \* the last call made: [op, arg]
    ret,            \* what the last call returned
    scenario,       \* how far the calls made so far follow the end-to-end
                    \* scenario of the specification's section 8 (0..4), or
                    \* -1 once they left it
    quality_filter, \* a QualityFilter: [known_hashes, known_phashes]
    validated,      \* the images that QualityFilter found valid so far
    download_queue, \* WallpaperDownloadWorker.download_queue
    thread,         \* where the worker thread is: [pc, i], i the number of
                    \* items the loop of run has taken from the queue
    gui,            \* where the GUI thread is in a download request
    requests,       \* the number of calls of add_download so far
    signals,        \* the signals the worker emitted so far
    peer            \* a second ImageManager on the same base path: its
                    \* [metadata, known_hashes]

\* What the operations of ImageManager leave alone.
others == <<quality_filter, validated, download_queue, thread, gui, requests,
           signals, peer>>

vars == <<files, metadata, known_hashes, disk, unwritable, now, call, ret,
         scenario, others>>

\* The state an operation of ImageManager works on.
St == [files |-> files, metadata |-> metadata,
       known_hashes |-> known_hashes, disk |-> disk,
       unwritable |-> unwritable]

\* Path.exists()
Exists(fs, p) == p \in DOMAIN fs

\* hashlib.md5 of the bytes.
Md5(c) == <<"md5", c>>

\* calculate_image_hash (the file is readable).
calculate_image_hash(fs, p) == Md5(fs[p])

Min(S) == CHOOSE x \in S : \A y \in S : x <= y

\* The positions of metadata['wallpapers'] (a dict: insertion ordered) that
\* hold key id.
IndexOf(wps, id) == {i \in 1..Len(wps) : wps[i].id = id}

HasWallpaper(wps, id) == IndexOf(wps, id) # {}

\* d[key] = value on an insertion-ordered dict: in place for a key that is
\* there, at the end for a new one.
DictSet(wps, rec) ==
    IF HasWallpaper(wps, rec.id)
    THEN [i \in 1..Len(wps) |-> IF wps[i].id = rec.id THEN rec ELSE wps[i]]
    ELSE Append(wps, rec)

\* del d[key]
DictDel(wps, id) == SelectSeq(wps, LAMBDA r : r.id # id)

\* path.unlink()
Unlink(fs, p) == [q \in DOMAIN fs \ {p} |-> fs[q]]

\* shutil.copy2(source, target)
Copy(fs, p, c) == [q \in DOMAIN fs \cup {p} |-> IF q = p THEN c ELSE fs[q]]

(* ----------------------------- operations ----------------------------- *)

\* validate_image: the minimum resolution.
MinWidth == 1280

MinHeight == 720

\* validate_image: aspect_ratio = width / height is refused below 0.5 and
\* above 3.0; over the integers, width / height < 0.5 is 2 * width < height
\* and width / height > 3.0 is width > 3 * height.
MaxAspect == 3

TooSmall(c) == Width(c) < MinWidth \/ Height(c) < MinHeight

BadAspect(c) == 2 * Width(c) < Height(c) \/ Width(c) > MaxAspect * Height(c)

\* validate_image without its resolution check.
validate_image_NoResolution(c) ==
    IF ~Decodable(c) THEN FALSE
    ELSE IF BadAspect(c) THEN FALSE
    ELSE TRUE

\* validate_image, on the bytes of the file: Image.open raises on bytes
\* that are no image.
validate_image(c) ==
    IF ~Decodable(c) THEN FALSE
    ELSE IF TooSmall(c) THEN FALSE
    ELSE IF BadAspect(c) THEN FALSE
    ELSE TRUE

\* The name of the metadata file in the base path.
MetadataFile == ".metadata.json"

\* shutil.copy2 to p and p.unlink() raise PermissionError when the
\* directory of p is not writable.
WriteFails(st, p) == p.dir \in st.unwritable

\* save_metadata never reaching the file.
save_metadata_Skips(st) == st

\* save_metadata: open(..., 'w') raises IOError on a file that is not
\* writable; the error is logged and nothing is raised or returned.
save_metadata(st) ==
    IF MetadataFile \in st.unwritable THEN st
    ELSE [st EXCEPT !.disk = Some(st.metadata)]

\* find_duplicate finding nothing.
find_duplicate_Never(st, c) == None

\* find_duplicate, on the bytes of image_path: the path of the first
\* catalog record with that hash whose file exists.
find_duplicate(st, c) ==
    LET image_hash == Md5(c)
        wps == st.metadata.wallpapers
        hits == {i \in 1..Len(wps) :
                    wps[i].hash = image_hash /\ Exists(st.files, wps[i].path)}
    IN  IF image_hash \notin st.known_hashes THEN None
        ELSE IF hits = {} THEN None
        ELSE Some(wps[Min(hits)].path)

\* find_wallpaper_by_id without its source_type filter.
find_wallpaper_by_id_NoFilter(st, wallpaper_id, source_type) ==
    LET wps == st.metadata.wallpapers
        hits == {i \in 1..Len(wps) :
                    /\ wps[i].metadata.wallpaper_id = Some(wallpaper_id)
                    /\ Exists(st.files, wps[i].path)}
    IN  IF hits = {} THEN None ELSE Some(wps[Min(hits)].path)

\* find_wallpaper_by_id
find_wallpaper_by_id(st, wallpaper_id, source_type) ==
    LET wps == st.metadata.wallpapers
        hits == {i \in 1..Len(wps) :
                    /\ ~(source_type # None /\ Some(wps[i].source_type) # source_type)
                    /\ wps[i].metadata.wallpaper_id = Some(wallpaper_id)
                    /\ Exists(st.files, wps[i].path)}
    IN  IF hits = {} THEN None ELSE Some(wps[Min(hits)].path)

\* store_wallpaper without its loop over the names that are taken.
TargetPath_NoLoop(fs, source_type, name) == [dir |-> source_type, name |-> name]

\* store_wallpaper, lines 253-262: the target path, with the first free
\* counter appended to the name while the path exists.
TargetPath(fs, source_type, name) ==
    LET original_target == [dir |-> source_type, name |-> name]
        Numbered(k) == [dir |-> source_type, name |-> Append(name, k)]
        free == {k \in 1..(Cardinality(DOMAIN fs) + 1) : ~Exists(fs, Numbered(k))}
    IN  IF ~Exists(fs, original_target) THEN original_target
        ELSE Numbered(Min(free))

\* target_path.relative_to(self.base_path)
RelativeTo(p) == <<p.dir, p.name>>

\* source_stats[source_type] = source_stats.get(source_type, 0) + 1
IncBySource(by_source, source_type) ==
    [k \in DOMAIN by_source \cup {source_type} |->
        IF k = source_type
        THEN (IF k \in DOMAIN by_source THEN by_source[k] ELSE 0) + 1
        ELSE by_source[k]]

\* store_wallpaper, lines 264-295: copy, hash, record, count, save; an
\* exception of the copy is caught and None returned.
StoreNew(st, src, source_type, md, t) ==
    LET target_path == TargetPath(st.files, source_type, src.name)
        fs == Copy(st.files, target_path, src.content)
        image_hash == calculate_image_hash(fs, target_path)
        rec == [id |-> RelativeTo(target_path),
                path |-> target_path,
                source_type |-> source_type,
                added_date |-> t,
                hash |-> image_hash,
                metadata |-> md]
        meta == [wallpapers |-> DictSet(st.metadata.wallpapers, rec),
                 stats |-> [total_downloads |-> st.metadata.stats.total_downloads + 1,
                            by_source |-> IncBySource(st.metadata.stats.by_source,
                                                      source_type)]]
    IN  IF WriteFails(st, target_path) THEN [st |-> st, ret |-> None]
        ELSE [st |-> save_metadata([st EXCEPT
                                      !.files = fs,
                                      !.metadata = meta,
                                      !.known_hashes = @ \cup {image_hash}]),
              ret |-> Some(target_path)]

\* store_wallpaper, lines 226-237: the early returns.
Refused(src, source_type) ==
    \/ source_type \notin Directories
    \/ ~src.exists
    \/ ~validate_image(src.content)

\* store_wallpaper (target_name is None, as in every call of the
\* repository); t is datetime.now().
store_wallpaper(st, src, source_type, md, t) ==
    IF Refused(src, source_type) THEN [st |-> st, ret |-> None]
    ELSE LET existing_duplicate == find_duplicate(st, src.content)
         IN  IF existing_duplicate # None
             THEN [st |-> st, ret |-> existing_duplicate]
             ELSE StoreNew(st, src, source_type, md, t)

\* delete_wallpaper saving before it looks the id up.
DeleteMissing_Saves(st, wallpaper_id) ==
    [st |-> save_metadata(st), ret |-> FALSE]

\* delete_wallpaper, lines 459-461: the id is not in the catalog.
DeleteMissing(st, wallpaper_id) == [st |-> st, ret |-> FALSE]

\* delete_wallpaper, lines 479-484: the per-source counter.
DecBySource(by_source, source_type) ==
    IF source_type \in DOMAIN by_source
    THEN [by_source EXCEPT
            ![source_type] = IF @ - 1 < 0 THEN 0 ELSE @ - 1]
    ELSE by_source

\* delete_wallpaper removing the record and the hash but not the file.
RemoveEntry_KeepsFile(st, wallpaper_id) ==
    LET wps == st.metadata.wallpapers
        wallpaper_info == wps[Min(IndexOf(wps, wallpaper_id))]
    IN  [st EXCEPT
            !.known_hashes = @ \ {wallpaper_info.hash},
            !.metadata.wallpapers = DictDel(@, wallpaper_id)]

\* delete_wallpaper, lines 466-477: the file, the hash and the record.
RemoveEntry(st, wallpaper_id) ==
    LET wps == st.metadata.wallpapers
        wallpaper_info == wps[Min(IndexOf(wps, wallpaper_id))]
        wallpaper_path == wallpaper_info.path
    IN  [st EXCEPT
            !.files = IF Exists(@, wallpaper_path)
                      THEN Unlink(@, wallpaper_path) ELSE @,
            !.known_hashes = @ \ {wallpaper_info.hash},
            !.metadata.wallpapers = DictDel(@, wallpaper_id)]

\* An unlink that never raises.
UnlinkFails_Never(st, wallpaper_path) == FALSE

\* wallpaper_path.unlink() is called on a file that exists, and raises.
UnlinkFails(st, wallpaper_path) ==
    Exists(st.files, wallpaper_path) /\ WriteFails(st, wallpaper_path)

\* delete_wallpaper; an exception of the unlink is caught and False
\* returned.
delete_wallpaper(st, wallpaper_id) ==
    IF ~HasWallpaper(st.metadata.wallpapers, wallpaper_id)
    THEN DeleteMissing(st, wallpaper_id)
    ELSE LET wps == st.metadata.wallpapers
             wallpaper_info == wps[Min(IndexOf(wps, wallpaper_id))]
             removed == RemoveEntry(st, wallpaper_id)
             counted == [removed EXCEPT !.metadata.stats.by_source =
                            DecBySource(@, wallpaper_info.source_type)]
         IN  IF UnlinkFails(st, wallpaper_info.path) THEN [st |-> st, ret |-> FALSE]
             ELSE [st |-> save_metadata(counted), ret |-> TRUE]

\* delete_multiple_wallpapers: delete_wallpaper on each id in turn;
\* ret is (successful, total).
RECURSIVE DeleteEach(_, _, _)

\* The loop of delete_multiple_wallpapers given up at the first id that
\* delete_wallpaper returns False for.
DeleteEach_StopsAtFailure(st, wallpaper_ids, successful) ==
    IF wallpaper_ids = <<>> THEN [st |-> st, successful |-> successful]
    ELSE LET r == delete_wallpaper(st, Head(wallpaper_ids))
         IN  IF r.ret THEN DeleteEach(r.st, Tail(wallpaper_ids), successful + 1)
             ELSE [st |-> st, successful |-> successful]

DeleteEach(st, wallpaper_ids, successful) ==
    IF wallpaper_ids = <<>> THEN [st |-> st, successful |-> successful]
    ELSE LET r == delete_wallpaper(st, Head(wallpaper_ids))
         IN  DeleteEach(r.st, Tail(wallpaper_ids),
                        IF r.ret THEN successful + 1 ELSE successful)

delete_multiple_wallpapers(st, wallpaper_ids) ==
    LET r == DeleteEach(st, wallpaper_ids, 0)
    IN  [st |-> r.st, ret |-> <<r.successful, Len(wallpaper_ids)>>]

\* list.sort(key=added_date): a stable sort, oldest first.
RECURSIVE InsertByDate(_, _)
InsertByDate(sorted, x) ==
    IF sorted = <<>> THEN <<x>>
    ELSE IF x.added_date < Head(sorted).added_date THEN <<x>> \o sorted
    ELSE <<Head(sorted)>> \o InsertByDate(Tail(sorted), x)

RECURSIVE SortByDate(_)
SortByDate(wps) ==
    IF wps = <<>> THEN <<>>
    ELSE InsertByDate(SortByDate(SubSeq(wps, 1, Len(wps) - 1)), wps[Len(wps)])

\* cleanup_old_wallpapers, lines 321-333: one pass of the loop over
\* to_remove in which nothing is raised.
RemoveOld(st, wallpaper_info) ==
    [st EXCEPT
        !.files = IF Exists(@, wallpaper_info.path)
                  THEN Unlink(@, wallpaper_info.path) ELSE @,
        !.metadata.wallpapers = DictDel(@, wallpaper_info.id),
        !.known_hashes = @ \ {wallpaper_info.hash}]

\* cleanup_old_wallpapers, lines 319-336: the loop over to_remove; an
\* exception of the unlink is caught, and the loop goes on with the next.
RECURSIVE RemoveAllOld(_, _, _)
RemoveAllOld(st, to_remove, removed_count) ==
    IF to_remove = <<>> THEN [st |-> st, removed_count |-> removed_count]
    ELSE IF UnlinkFails(st, Head(to_remove).path)
         THEN RemoveAllOld(st, Tail(to_remove), removed_count)
         ELSE RemoveAllOld(RemoveOld(st, Head(to_remove)), Tail(to_remove),
                           removed_count + 1)

\* cleanup_old_wallpapers, lines 307-310: whether there is anything to do.
WithinLimit(wallpapers, max_total) == Len(wallpapers) <= max_total

\* cleanup_old_wallpapers
cleanup_old_wallpapers(st, max_total) ==
    LET wallpapers == st.metadata.wallpapers
    IN  IF WithinLimit(wallpapers, max_total) THEN [st |-> st, ret |-> 0]
        ELSE LET sorted == SortByDate(wallpapers)
                 to_remove == SubSeq(sorted, 1, Len(wallpapers) - max_total)
                 r == RemoveAllOld(st, to_remove, 0)
             IN  [st |-> IF r.removed_count > 0 THEN save_metadata(r.st) ELSE r.st,
                  ret |-> r.removed_count]

\* get_storage_stats counting the records of the catalog, not the files.
get_storage_stats_FromCatalog(st) ==
    LET wps == st.metadata.wallpapers
    IN  [total_files |-> Len(wps),
         by_source |-> st.metadata.stats.by_source,
         directories |-> [name \in Directories |->
                            Cardinality({i \in 1..Len(wps) : wps[i].path.dir = name})]]

\* get_storage_stats: the files counted in the directories themselves.
\* Like list_wallpapers it reads the state and changes nothing.
get_storage_stats(st) ==
    [total_files |-> Cardinality({p \in DOMAIN st.files : p.dir \in Directories}),
     by_source |-> st.metadata.stats.by_source,
     directories |-> [name \in Directories |->
                        Cardinality({p \in DOMAIN st.files : p.dir = name})]]

\* list_wallpapers: the records (of source_type, when one is given) whose
\* file exists, in catalog order.
list_wallpapers(st, source_type) ==
    SelectSeq(st.metadata.wallpapers,
              LAMBDA r : /\ (source_type = None \/ Some(r.source_type) = source_type)
                         /\ Exists(st.files, r.path))

\* get_wallpaper_info without its test that the file exists.
get_wallpaper_info_NoExists(st, wallpaper_id) ==
    LET wps == st.metadata.wallpapers
    IN  IF ~HasWallpaper(wps, wallpaper_id) THEN None
        ELSE Some(wps[Min(IndexOf(wps, wallpaper_id))])

\* get_wallpaper_info: the record of the id, if it is in the catalog and
\* its file exists (the file-system details added to the copy are left out).
get_wallpaper_info(st, wallpaper_id) ==
    LET wps == st.metadata.wallpapers
    IN  IF ~HasWallpaper(wps, wallpaper_id) THEN None
        ELSE LET wallpaper_info == wps[Min(IndexOf(wps, wallpaper_id))]
             IN  IF ~Exists(st.files, wallpaper_info.path) THEN None
                 ELSE Some(wallpaper_info)

\* Path.name of a stored file: the stem, '_' and the counter if
\* store_wallpaper appended one, and the suffix '.jpg'.
Digits == <<"1", "2", "3", "4", "5", "6", "7", "8", "9">>

FileName(name) ==
    <<name[1]>>
      \o (IF Len(name) > 1 THEN <<"_", Digits[name[2]]>> ELSE <<>>)
      \o <<".", "j", "p", "g">>

\* search_wallpapers looking at the file name only.
Matches_FileNameOnly(query_lower, wallpaper_info) ==
    Contains(ToLower(FileName(wallpaper_info.path.name)), query_lower)

\* search_wallpapers, lines 578-614: whether a record matches, looking at
\* the file name, then the tags, then the category, then the prompt.
Matches(query_lower, wallpaper_info) ==
    LET md == wallpaper_info.metadata
    IN  IF Contains(ToLower(FileName(wallpaper_info.path.name)), query_lower) THEN TRUE
        ELSE IF \E i \in 1..Len(md.tags) : Contains(ToLower(md.tags[i]), query_lower)
             THEN TRUE
        ELSE IF Contains(ToLower(md.category), query_lower) THEN TRUE
        ELSE Contains(ToLower(md.prompt), query_lower)

\* search_wallpapers: one pass over the catalog, in its order; a record is
\* appended at most once.
search_wallpapers(st, query, source_type) ==
    LET query_lower == ToLower(query)
    IN  SelectSeq(st.metadata.wallpapers,
                  LAMBDA r : /\ ~(source_type # None /\ Some(r.source_type) # source_type)
                             /\ Exists(st.files, r.path)
                             /\ Matches(query_lower, r))

(* ------------------------------ actions ------------------------------- *)

\* ImageManager() on an empty base path: no .metadata.json, so
\* load_metadata returns the default record; the directories are empty.
Init ==
    /\ files = <<>>
    /\ metadata = [wallpapers |-> <<>>,
                   stats |-> [total_downloads |-> 0, by_source |-> <<>>]]
    /\ known_hashes = {}
    /\ disk = None
    /\ unwritable = {}
    /\ now = 0
    /\ call = [op |-> "init", arg |-> <<>>]
    /\ ret = None
    /\ scenario = 0
    /\ quality_filter = [known_hashes |-> {}, known_phashes |-> {}]
    /\ validated = {}
    /\ download_queue = <<>>
    /\ thread = [pc |-> "idle", i |-> 0]
    /\ gui = "idle"
    /\ requests = 0
    /\ signals = <<>>
    /\ peer = [metadata |-> metadata, known_hashes |-> known_hashes]

\* The end-to-end scenario: from the empty catalog, (1) store a 1920x1080
\* image under 'community', (2) store a byte-identical copy of it, (3) store
\* a 640x480 image, (4) cleanup_old_wallpapers(0).  Follows(c) is the step
\* of the scenario that call c completes.
IsStore(c, w, h) ==
    /\ c.op = "store_wallpaper"
    /\ c.arg[1].exists
    /\ Width(c.arg[1].content) = w
    /\ Height(c.arg[1].content) = h

Follows(c) ==
    IF scenario = 0 /\ IsStore(c, 1920, 1080) /\ c.arg[2] = "community" THEN 1
    ELSE IF scenario = 1 /\ IsStore(c, 1920, 1080) /\ c.arg[2] \in Directories THEN 2
    ELSE IF scenario = 2 /\ IsStore(c, 640, 480) /\ c.arg[2] \in Directories THEN 3
    ELSE IF scenario = 3 /\ c = [op |-> "cleanup_old_wallpapers", arg |-> <<0>>] THEN 4
    ELSE -1

\* The state after a call that returned r.
Returns(r) ==
    /\ files' = r.st.files
    /\ metadata' = r.st.metadata
    /\ known_hashes' = r.st.known_hashes
    /\ disk' = r.st.disk
    /\ unwritable' = r.st.unwritable
    /\ ret' = r.ret

\* The ids tried by the deletions: those of the catalog, and one that is
\* in it at some times and not at others.
IdsTried == {metadata.wallpapers[i].id : i \in 1..Len(metadata.wallpapers)}
              \cup {<<"community", n>> : n \in SourceNames}

\* The lists of ids tried: the ids of the cards selected in the gallery,
\* each id once, in any order.
IdLists == {l \in UNION {[1..n -> IdsTried] : n \in 0..MaxIds} :
              \A i, j \in 1..Len(l) : l[i] = l[j] => i = j}

\* A stored file disappears without the catalog's doing.
ExternalRemove ==
    \E p \in DOMAIN files :
        /\ files' = Unlink(files, p)
        /\ call' = [op |-> "external_remove", arg |-> <<p>>]
        /\ ret' = None
        /\ scenario' = Follows(call')
        /\ UNCHANGED <<metadata, known_hashes, disk, unwritable, now, others>>

\* store_wallpaper.  added_date is datetime.now() at microsecond
\* resolution, read after a file copy: two records are never written at the
\* same clock value, so the clock moves on with every record written.
StoreWallpaper ==
    /\ metadata.stats.total_downloads < MaxDownloads
    /\ \E src \in SourceFiles, kind \in StoreKinds :
        /\ Returns(store_wallpaper(St, src, kind[1], kind[2], now))
        /\ call' = [op |-> "store_wallpaper", arg |-> <<src, kind[1], kind[2]>>]
        /\ scenario' = Follows(call')
    /\ now' = IF metadata'.stats.total_downloads # metadata.stats.total_downloads
              THEN now + 1 ELSE now
    /\ UNCHANGED others

DeleteWallpaper ==
    /\ \E wallpaper_id \in IdsTried :
        /\ Returns(delete_wallpaper(St, wallpaper_id))
        /\ call' = [op |-> "delete_wallpaper", arg |-> <<wallpaper_id>>]
        /\ scenario' = Follows(call')
    /\ UNCHANGED <<now, others>>

DeleteMultipleWallpapers ==
    /\ \E wallpaper_ids \in IdLists :
        /\ Returns(delete_multiple_wallpapers(St, wallpaper_ids))
        /\ call' = [op |-> "delete_multiple_wallpapers", arg |-> <<wallpaper_ids>>]
        /\ scenario' = Follows(call')
    /\ UNCHANGED <<now, others>>

CleanupOldWallpapers ==
    /\ \E max_total \in 0..MaxKeep :
        /\ Returns(cleanup_old_wallpapers(St, max_total))
        /\ call' = [op |-> "cleanup_old_wallpapers", arg |-> <<max_total>>]
        /\ scenario' = Follows(call')
    /\ UNCHANGED <<now, others>>

\* The source_type filters of the read operations.
Filters == {None} \cup {Some(s) : s \in SourceTypes}

\* The queries tried with search_wallpapers: '' and 'A' are in every file
\* name, '_1' in the name of a file stored under a taken name, 'un' in the
\* tag and in the prompt of TaggedMetadata, 'ea' in its category only,
\* 'et' in its prompt only, and 'z' nowhere.
Queries == {<<>>, <<"A">>, <<"_", "1">>, <<"U", "n">>, <<"e", "a">>,
            <<"e", "t">>, <<"z">>}

FindWallpaperById ==
    /\ \E wallpaper_id \in WallpaperIds, source_type \in Filters :
        /\ ret' = find_wallpaper_by_id(St, wallpaper_id, source_type)
        /\ call' = [op |-> "find_wallpaper_by_id", arg |-> <<wallpaper_id, source_type>>]
        /\ scenario' = Follows(call')
    /\ UNCHANGED <<files, metadata, known_hashes, disk, unwritable, now, others>>

Next ==
    \/ ExternalRemove
    \/ StoreWallpaper
    \/ DeleteWallpaper
    \/ DeleteMultipleWallpapers
    \/ CleanupOldWallpapers
    \/ FindWallpaperById

Spec == Init /\ [][Next]_vars

\* The permission of a place changes without the catalog's doing.
Chmod(place) ==
    /\ unwritable' = IF place \in unwritable THEN unwritable \ {place}
                     ELSE unwritable \cup {place}
    /\ call' = [op |-> "chmod", arg |-> <<place>>]
    /\ ret' = None
    /\ scenario' = Follows(call')
    /\ UNCHANGED <<files, metadata, known_hashes, disk, now, others>>

\* The metadata file loses or regains its write permission.
ChmodMetadataFile == Chmod(MetadataFile)

\* The catalog with a metadata file whose writes can fail.
NextSaveFaults ==
    \/ ChmodMetadataFile
    \/ StoreWallpaper
    \/ DeleteWallpaper
    \/ DeleteMultipleWallpapers
    \/ CleanupOldWallpapers

SpecSaveFaults == Init /\ [][NextSaveFaults]_vars

\* A category directory loses or regains its write permission: here the
\* one the gallery's download worker stores to.
ChmodDirectory == Chmod("wallhaven")

\* The catalog over a directory in which copies and removals can fail.
NextFileFaults ==
    \/ ChmodDirectory
    \/ ExternalRemove
    \/ StoreWallpaper
    \/ DeleteWallpaper
    \/ CleanupOldWallpapers

SpecFileFaults == Init /\ [][NextFileFaults]_vars

\* The same, for the gallery's deletion of the selected cards.
NextBulkDelete ==
    \/ ChmodDirectory
    \/ ExternalRemove
    \/ StoreWallpaper
    \/ DeleteMultipleWallpapers

SpecBulkDelete == Init /\ [][NextBulkDelete]_vars

\* search_wallpapers; it reads the catalog and the files and changes
\* nothing.
SearchWallpapers ==
    /\ \E query \in Queries, source_type \in Filters :
        /\ ret' = search_wallpapers(St, query, source_type)
        /\ call' = [op |-> "search_wallpapers", arg |-> <<query, source_type>>]
        /\ scenario' = Follows(call')
    /\ UNCHANGED <<files, metadata, known_hashes, disk, unwritable, now, others>>

\* The catalog as the gallery's search box sees it.
NextSearch ==
    \/ ExternalRemove
    \/ StoreWallpaper
    \/ DeleteWallpaper
    \/ SearchWallpapers

SpecSearch == Init /\ [][NextSearch]_vars

\* A file appears in a category directory without the catalog's doing:
\* WallhavenClient.download_wallpaper, given no save_path, writes its
\* download into the 'wallhaven' directory itself, under the name the
\* gallery then hands to store_wallpaper.
ExternalAdd ==
    \E name \in SourceNames :
        LET p == [dir |-> "wallhaven", name |-> name]
        IN  /\ ~Exists(files, p)
            /\ files' = Copy(files, p, "A")
            /\ call' = [op |-> "external_add", arg |-> <<p>>]
            /\ ret' = None
            /\ scenario' = Follows(call')
            /\ UNCHANGED <<metadata, known_hashes, disk, unwritable, now, others>>

\* get_storage_stats; it reads the files and the counters and changes
\* nothing.
GetStorageStats ==
    /\ ret' = get_storage_stats(St)
    /\ call' = [op |-> "get_storage_stats", arg |-> <<>>]
    /\ scenario' = Follows(call')
    /\ UNCHANGED <<files, metadata, known_hashes, disk, unwritable, now, others>>

\* The catalog over directories whose files come and go.
NextDrift ==
    \/ ExternalAdd
    \/ ExternalRemove
    \/ StoreWallpaper
    \/ DeleteWallpaper
    \/ CleanupOldWallpapers
    \/ GetStorageStats

SpecDrift == Init /\ [][NextDrift]_vars

(* ------------------------------- claims ------------------------------- *)

Wps == metadata.wallpapers

\* The catalog's records, and those whose file exists (the live entries).
Records == {Wps[i] : i \in 1..Len(Wps)}

LiveRecords == {r \in Records : Exists(files, r.path)}

RecordsAfter == {Wps'[i] : i \in 1..Len(Wps')}

LiveRecordsAfter == {r \in RecordsAfter : Exists(files', r.path)}

\* A step that leaves the catalog, the duplicate index, the counters, the
\* persisted record and the files as they were.
NothingMutated == UNCHANGED <<files, metadata, known_hashes, disk>>

\* C1: store_wallpaper of bytes identical to those of a live catalog entry
\* (from an existing source file, under a category that exists) returns that
\* entry's path, copies no file and adds no record and no count.
C1_IdempotentReadmission ==
    [][(/\ call'.op = "store_wallpaper"
        /\ call'.arg[1].exists
        /\ call'.arg[2] \in Directories
        /\ \E r \in LiveRecords : r.hash = Md5(call'.arg[1].content))
       => /\ \E r \in LiveRecords :
                r.hash = Md5(call'.arg[1].content) /\ ret' = Some(r.path)
          /\ files' = files
          /\ metadata' = metadata]_vars

\* C2: no two live catalog entries carry the same content fingerprint.
C2_NoDuplicateLive ==
    \A r, q \in LiveRecords : r.hash = q.hash => r = q

\* C3: store_wallpaper of a missing source file, under an unknown category
\* or of an image that fails validation (not decodable, below 1280x720, or
\* of aspect ratio outside [0.5, 3.0]) returns None and mutates nothing:
\* so does every such call made, and so would the same call with each of
\* the other refused contents.
FailsValidation(c) ==
    \/ ~Decodable(c)
    \/ Width(c) < MinWidth
    \/ Height(c) < MinHeight
    \/ 2 * Width(c) < Height(c)
    \/ Width(c) > MaxAspect * Height(c)

\* Files that are refused although they exist, besides the small image of
\* Contents: a very wide image (4000x1000) and bytes that are no image.
RefusedContents == {"W", "X"}

C3_RejectedAdmissionMutatesNothing ==
    [][call'.op = "store_wallpaper"
       => /\ (\/ ~call'.arg[1].exists
              \/ call'.arg[2] \notin Directories
              \/ FailsValidation(call'.arg[1].content))
             => ret' = None /\ NothingMutated
          /\ \A c \in RefusedContents :
                /\ FailsValidation(c)
                /\ store_wallpaper(St, [call'.arg[1] EXCEPT !.content = c],
                                   call'.arg[2], call'.arg[3], now)
                     = [st |-> St, ret |-> None]]_vars

\* C3's case: a small image was refused while the catalog held an entry.
C3_Witness ==
    /\ call.op = "store_wallpaper"
    /\ call.arg[1].exists
    /\ call.arg[2] \in Directories
    /\ Width(call.arg[1].content) < MinWidth
    /\ ret = None
    /\ LiveRecords # {}

\* C4: cleanup_old_wallpapers(max_total) on a catalog with max_total + k
\* live entries, k > 0, returns k, removes exactly k entries, and leaves
\* live exactly the max_total latest by added_date.
C4_EvictsExactlySurplus ==
    [][(/\ call'.op = "cleanup_old_wallpapers"
        /\ Cardinality(LiveRecords) > call'.arg[1])
       => /\ ret' = Cardinality(LiveRecords) - call'.arg[1]
          /\ Len(Wps) - Len(Wps') = Cardinality(LiveRecords) - call'.arg[1]
          /\ LiveRecordsAfter \subseteq LiveRecords
          /\ Cardinality(LiveRecordsAfter) = call'.arg[1]
          /\ \A r \in LiveRecordsAfter, q \in LiveRecords \ LiveRecordsAfter :
                q.added_date <= r.added_date]_vars

\* C5: cleanup_old_wallpapers(max_total) with at most max_total live
\* entries returns 0 and mutates nothing.
C5_NoEvictionWithinLimit ==
    [][(/\ call'.op = "cleanup_old_wallpapers"
        /\ Cardinality(LiveRecords) <= call'.arg[1])
       => ret' = 0 /\ NothingMutated]_vars

\* C6: the state after cleanup_old_wallpapers is the state delete_wallpaper
\* leaves when applied to each evicted entry.
EvictedIds == SelectSeq([i \in 1..Len(Wps) |-> Wps[i].id],
                        LAMBDA id : ~HasWallpaper(Wps', id))

C6_EvictionIsDelete ==
    [][call'.op = "cleanup_old_wallpapers"
       => LET deleted == DeleteEach(St, EvictedIds, 0).st
          IN  /\ files' = deleted.files
              /\ metadata' = deleted.metadata
              /\ known_hashes' = deleted.known_hashes
              /\ disk' = deleted.disk]_vars

\* C7: delete_wallpaper of an id that is not in the catalog returns False
\* and mutates nothing.
C7_DeleteMissingIsNoOp ==
    [][(/\ call'.op = "delete_wallpaper"
        /\ ~HasWallpaper(Wps, call'.arg[1]))
       => ret' = FALSE /\ NothingMutated]_vars

\* C7's case: the id was not in a catalog that held other entries.
C7_Witness ==
    /\ call.op = "delete_wallpaper"
    /\ ret = FALSE
    /\ ~HasWallpaper(Wps, call.arg[1])
    /\ Records # {}

\* C8: delete_wallpaper of an id that is in the catalog returns True,
\* removes the file and the record and persists; list_wallpapers, with any
\* filter, then excludes the id, and an id enters the catalog only by a
\* store_wallpaper that returns its path.
ListedIdsAfter(source_type) ==
    LET listed == list_wallpapers(St', source_type)
    IN  {listed[i].id : i \in 1..Len(listed)}

C8_DeleteRemovesUntilReadmitted ==
    [][/\ (call'.op = "delete_wallpaper" /\ HasWallpaper(Wps, call'.arg[1]))
          => LET wallpaper_id == call'.arg[1]
                 rec == CHOOSE r \in Records : r.id = wallpaper_id
             IN  /\ ret' = TRUE
                 /\ ~Exists(files', rec.path)
                 /\ ~HasWallpaper(Wps', wallpaper_id)
                 /\ disk' = Some(metadata')
                 /\ \A f \in Filters : wallpaper_id \notin ListedIdsAfter(f)
       /\ \A f \in Filters : \A id \in ListedIdsAfter(f) :
            \/ HasWallpaper(Wps, id)
            \/ /\ call'.op = "store_wallpaper"
               /\ ret' # None
               /\ RelativeTo(ret'[1]) = id]_vars

\* C8's case: a live entry was deleted while another stayed listed.
C8_Witness ==
    /\ call.op = "delete_wallpaper"
    /\ ret = TRUE
    /\ ~Exists(files, [dir |-> call.arg[1][1], name |-> call.arg[1][2]])
    /\ Len(list_wallpapers(St, None)) > 0
    /\ disk = Some(metadata)

\* C9: find_wallpaper_by_id returns None when no live entry with that
\* wallpaper_id has the source_type asked for, and the path of such an
\* entry when there is one or when no source_type is asked for.
C9_FindByIdRespectsFilter ==
    call.op = "find_wallpaper_by_id"
    => LET wallpaper_id == call.arg[1]
           source_type == call.arg[2]
           matching == {r \in LiveRecords :
                            r.metadata.wallpaper_id = Some(wallpaper_id)}
           wanted == {r \in matching :
                            source_type = None \/ Some(r.source_type) = source_type}
       IN  /\ wanted = {} => ret = None
           /\ wanted # {} => \E r \in wanted : ret = Some(r.path)

\* C9's case: the only live entry with the id is of another source_type
\* than the one asked for.
C9_Witness ==
    /\ call.op = "find_wallpaper_by_id"
    /\ call.arg[2] = Some("community")
    /\ \E r \in LiveRecords :
            /\ r.metadata.wallpaper_id = Some(call.arg[1])
            /\ r.source_type = "wallhaven"
    /\ ret = None

\* C10: the end-to-end scenario.  After step 1 the 'community' directory
\* counts one file; after step 2 the call has returned the path of the one
\* entry and there is still one file; after step 3 the call has returned
\* None and there is still one file; after step 4 the entry is gone and
\* there are no files.
C10_EndToEnd ==
    LET stats == get_storage_stats(St)
    IN  /\ scenario = 1 => /\ stats.directories["community"] = 1
                           /\ ret # None
        /\ scenario = 2 => /\ Len(Wps) = 1
                           /\ ret = Some(Wps[1].path)
                           /\ Wps[1].source_type = "community"
                           /\ stats.total_files = 1
        /\ scenario = 3 => /\ ret = None
                           /\ stats.total_files = 1
        /\ scenario = 4 => /\ ret = 1
                           /\ Wps = <<>>
                           /\ stats.total_files = 0

\* C10's case: the scenario was followed to its end.
C10_Witness == scenario = 4 /\ metadata.stats.total_downloads = 1

\* C11: a record of the catalog keeps its fields (path, source_type, hash,
\* added_date, metadata) for as long as its id is in the catalog, and leaves
\* the catalog only by delete_wallpaper, delete_multiple_wallpapers or
\* cleanup_old_wallpapers; store_wallpaper never replaces a record.
C11_RecordsNeverReplaced ==
    [][\A r \in Records :
          \/ r \in RecordsAfter
          \/ /\ ~HasWallpaper(Wps', r.id)
             /\ call'.op \in {"delete_wallpaper", "delete_multiple_wallpapers",
                              "cleanup_old_wallpapers"}]_vars

\* C12: list_wallpapers, search_wallpapers, find_wallpaper_by_id,
\* get_wallpaper_info and find_duplicate, called in any state and with any
\* argument, return no record and no path whose file does not exist.
Listed(wps) == {wps[i] : i \in 1..Len(wps)}

C12_ReadsSkipMissingFiles ==
    /\ \A f \in Filters :
        /\ Listed(list_wallpapers(St, f)) \subseteq LiveRecords
        /\ \A q \in Queries :
              Listed(search_wallpapers(St, q, f)) \subseteq LiveRecords
        /\ \A w \in WallpaperIds :
              LET found == find_wallpaper_by_id(St, w, f)
              IN  found # None => \E r \in LiveRecords : r.path = found[1]
    /\ \A r \in Records :
          LET info == get_wallpaper_info(St, r.id)
          IN  info # None => info[1] \in LiveRecords
    /\ \A c \in Contents :
          LET existing_duplicate == find_duplicate(St, c)
          IN  existing_duplicate # None
              => \E r \in LiveRecords : r.path = existing_duplicate[1]

\* C12's case: find_wallpaper_by_id was asked for the wallpaper_id of a
\* record whose file is gone and returned None, while another record is
\* live: the lists leave the dead record out, get_wallpaper_info returns
\* None for its id and find_duplicate nothing for its bytes.
C12_Witness ==
    /\ call.op = "find_wallpaper_by_id"
    /\ ret = None
    /\ LiveRecords # {}
    /\ \E r \in Records \ LiveRecords :
          /\ r.metadata.wallpaper_id = Some(call.arg[1])
          /\ r \notin Listed(list_wallpapers(St, None))
          /\ r \notin Listed(search_wallpapers(St, <<>>, None))
          /\ get_wallpaper_info(St, r.id) = None
          /\ find_duplicate(St, r.hash[2]) = None

\* The calls that write the catalog.
Mutators == {"store_wallpaper", "delete_wallpaper",
             "delete_multiple_wallpapers", "cleanup_old_wallpapers"}

\* C13: when store_wallpaper, delete_wallpaper, delete_multiple_wallpapers
\* or cleanup_old_wallpapers has changed the catalog (its records or its
\* counters) and the metadata file can be written, the file holds the
\* catalog as it is in memory when the call returns.
C13_PersistBeforeReturn ==
    [][(/\ call'.op \in Mutators
        /\ metadata' # metadata
        /\ MetadataFile \notin unwritable)
       => disk' = Some(metadata')]_vars

\* C13's case: an eviction removed records and left others while the
\* metadata file could be written, and the file holds the catalog.
C13_Witness ==
    /\ call.op = "cleanup_old_wallpapers"
    /\ ret > 0
    /\ MetadataFile \notin unwritable
    /\ disk = Some(metadata)
    /\ Len(Wps) > 0

\* What the call just made returns from the same state when the metadata
\* file can be written.
FullySuccessful ==
    LET writable == [St EXCEPT !.unwritable = @ \ {MetadataFile}]
    IN  CASE call'.op = "store_wallpaper" ->
               store_wallpaper(writable, call'.arg[1], call'.arg[2],
                               call'.arg[3], now)
          [] call'.op = "delete_wallpaper" ->
               delete_wallpaper(writable, call'.arg[1])
          [] call'.op = "cleanup_old_wallpapers" ->
               cleanup_old_wallpapers(writable, call'.arg[1])

\* C14: when store_wallpaper, delete_wallpaper or cleanup_old_wallpapers
\* has changed the catalog and the write of the metadata file fails, the
\* call returns something else than the same call whose write succeeds.
C14_SaveFailureReported ==
    [][(/\ call'.op \in {"store_wallpaper", "delete_wallpaper",
                         "cleanup_old_wallpapers"}
        /\ metadata' # metadata
        /\ MetadataFile \in unwritable)
       => ret' # FullySuccessful.ret]_vars

\* A step that leaves the catalog, the duplicate index and the persisted
\* record as they were.
CatalogUnchanged == UNCHANGED <<metadata, known_hashes, disk>>

\* C15: a store_wallpaper whose copy fails (it got as far as the copy: the
\* source is accepted and no duplicate is found; the target directory is not
\* writable) returns None, a delete_wallpaper whose unlink fails (the id is
\* in the catalog, its file exists in a directory that is not writable)
\* returns False, and both leave the records, the duplicate index, the
\* counters and the persisted record unchanged.
C15_FailedCopyOrUnlinkChangesNothing ==
    [][/\ (/\ call'.op = "store_wallpaper"
           /\ call'.arg[1].exists
           /\ call'.arg[2] \in Directories
           /\ ~FailsValidation(call'.arg[1].content)
           /\ find_duplicate(St, call'.arg[1].content) = None
           /\ call'.arg[2] \in unwritable)
          => ret' = None /\ CatalogUnchanged
       /\ (/\ call'.op = "delete_wallpaper"
           /\ \E r \in LiveRecords :
                r.id = call'.arg[1] /\ r.path.dir \in unwritable)
          => ret' = FALSE /\ CatalogUnchanged]_vars

\* C15's case: the file of a catalog entry could not be removed (the entry
\* had been stored while the directory was writable) and delete_wallpaper
\* returned False, the entry still being there.
C15_Witness ==
    /\ call.op = "delete_wallpaper"
    /\ ret = FALSE
    /\ \E r \in LiveRecords : r.id = call.arg[1] /\ r.path.dir \in unwritable
    /\ disk = Some(metadata)

\* C16: delete_multiple_wallpapers(ids) returns (s, n), n the length of ids
\* and s the number of its ids that are in the catalog and whose file can be
\* removed (it is gone already, or its directory is writable): these are the
\* ids delete_wallpaper returns True for.  Each of them is out of the
\* catalog afterwards, wherever in the list it stands, and the other records
\* stay.
Removable(id) ==
    \E r \in Records :
        /\ r.id = id
        /\ ~(Exists(files, r.path) /\ r.path.dir \in unwritable)

C16_DeleteManyGoesOn ==
    [][call'.op = "delete_multiple_wallpapers"
       => LET wallpaper_ids == call'.arg[1]
              removed == {i \in 1..Len(wallpaper_ids) : Removable(wallpaper_ids[i])}
          IN  /\ ret' = <<Cardinality(removed), Len(wallpaper_ids)>>
              /\ \A i \in removed :
                    /\ delete_wallpaper(St, wallpaper_ids[i]).ret
                    /\ ~HasWallpaper(Wps', wallpaper_ids[i])
              /\ \A r \in Records :
                    (\A i \in removed : wallpaper_ids[i] # r.id)
                        => r \in RecordsAfter]_vars

\* C16's case: of two ids the first could not be removed (its file is in a
\* directory that is not writable, and its record is still there) and the
\* second was.
C16_Witness ==
    /\ call.op = "delete_multiple_wallpapers"
    /\ ret = <<1, 2>>
    /\ \E r \in LiveRecords :
          r.id = call.arg[1][1] /\ r.path.dir \in unwritable
    /\ ~HasWallpaper(Wps, call.arg[1][2])

\* The surplus of the catalog over max_total: its oldest records, as many
\* as it has too many.
Surplus(max_total) ==
    {r \in Records :
        Cardinality({q \in Records : q.added_date < r.added_date})
            < Len(Wps) - max_total}

\* The surplus entries whose file cannot be removed.
Stuck(max_total) ==
    {r \in Surplus(max_total) :
        Exists(files, r.path) /\ r.path.dir \in unwritable}

\* C17: when cleanup_old_wallpapers cannot remove the file of a surplus
\* entry (every entry of the catalog being live), the other surplus entries
\* are removed all the same, the entry that failed stays in the catalog and
\* its hash stays in known_hashes, and the call returns the number of
\* entries it removed.
C17_EvictionGoesOn ==
    [][(/\ call'.op = "cleanup_old_wallpapers"
        /\ Records = LiveRecords
        /\ Stuck(call'.arg[1]) # {})
       => LET surplus == Surplus(call'.arg[1])
              stuck == Stuck(call'.arg[1])
          IN  /\ \A r \in surplus \ stuck : ~HasWallpaper(Wps', r.id)
              /\ \A r \in stuck :
                    /\ r \in RecordsAfter
                    /\ r.hash \in known_hashes => r.hash \in known_hashes'
              /\ ret' = Cardinality(surplus \ stuck)]_vars

\* C18: search_wallpapers(query, source_type) returns the live entries (of
\* source_type, when one is given) for which the lower-cased query is in the
\* lower-cased file name, in some tag, in the category or in the prompt:
\* all of them, nothing else, and each once.
Found(query, source_type) ==
    {r \in LiveRecords :
        /\ source_type = None \/ Some(r.source_type) = source_type
        /\ \/ Contains(ToLower(FileName(r.path.name)), ToLower(query))
           \/ \E tag \in Listed(r.metadata.tags) : Contains(ToLower(tag), ToLower(query))
           \/ Contains(ToLower(r.metadata.category), ToLower(query))
           \/ Contains(ToLower(r.metadata.prompt), ToLower(query))}

C18_SearchIsExact ==
    call.op = "search_wallpapers"
    => /\ Listed(ret) = Found(call.arg[1], call.arg[2])
       /\ Len(ret) = Cardinality(Found(call.arg[1], call.arg[2]))

\* C18's case: the query 'Un' is in the tag 'Sun' and in the prompt
\* 'sunset' of one live entry, which was returned once, and in nothing of
\* another live entry, which was not returned.
C18_Witness ==
    /\ call.op = "search_wallpapers"
    /\ call.arg = <<(<<"U", "n">>), None>>
    /\ Len(ret) = 1
    /\ ret[1].metadata = TaggedMetadata
    /\ Cardinality(LiveRecords) > 1

\* The files present in a category directory.
FilesIn(name) == {p \in DOMAIN files : p.dir = name}

\* What get_storage_stats counts from the directories: 'total_files' and
\* 'directories'.
CountsFiles(stats) ==
    /\ stats.total_files = Cardinality(UNION {FilesIn(name) : name \in Directories})
    /\ \A name \in Directories :
          stats.directories[name] = Cardinality(FilesIn(name))

Candidate(source_type, name, k) ==
    [dir |-> source_type, name |-> IF k = 0 THEN name ELSE Append(name, k)]

\* C20: a store_wallpaper that stores (it adds a record) writes a file that
\* was not there and leaves every other file as it was; the file is in the
\* directory of source_type under the first name of name, name_1,
\* name_2, ... that no file of the directory had.
C20_CollisionSafePlacement ==
    [][(/\ call'.op = "store_wallpaper"
        /\ metadata'.stats.total_downloads # metadata.stats.total_downloads)
       => /\ ret' # None
          /\ ~Exists(files, ret'[1])
          /\ files' = Copy(files, ret'[1], call'.arg[1].content)
          /\ \E k \in 0..Cardinality(DOMAIN files) :
                /\ ret'[1] = Candidate(call'.arg[2], call'.arg[1].name, k)
                /\ \A j \in 0..(k - 1) :
                      Exists(files, Candidate(call'.arg[2], call'.arg[1].name, j))]_vars

\* C20's case: a.jpg was stored as a_1.jpg in a directory that held a.jpg
\* and a_2.jpg, and holds them still.
C20_Witness ==
    /\ call.op = "store_wallpaper"
    /\ ret = Some(Candidate("wallhaven", <<"a">>, 1))
    /\ \A k \in 0..2 : Exists(files, Candidate("wallhaven", <<"a">>, k))
    /\ \E r \in Records :
          /\ r.path = Candidate("wallhaven", <<"a">>, 1)
          /\ \A q \in Records : q.added_date <= r.added_date

\* The source types store_wallpaper's docstring lists, which are also the
\* categories the statistics panel shows.
DocumentedSourceTypes == {"curated", "ai_generated", "community", "public_domain"}

\* C21: store_wallpaper of a valid image that is no duplicate, under any of
\* the four documented source types, returns the path of the stored file in
\* the directory of that source type, and get_storage_stats has a
\* 'directories' count under that name.
C21_DocumentedSourceTypesStore ==
    [][(/\ call'.op = "store_wallpaper"
        /\ call'.arg[2] \in DocumentedSourceTypes
        /\ call'.arg[1].exists
        /\ ~FailsValidation(call'.arg[1].content)
        /\ find_duplicate(St, call'.arg[1].content) = None)
       => /\ ret' # None
          /\ ret'[1].dir = call'.arg[2]
          /\ Exists(files', ret'[1])
          /\ call'.arg[2] \in DOMAIN get_storage_stats(St').directories]_vars

(* --------------------------- QualityFilter ---------------------------- *)

\* QualityFilter.__init__: the minimum resolution, the aspect ratios 0.5 and
\* 3.5 as fractions, and the file sizes in bytes.
min_width == 1280

min_height == 720

min_aspect_ratio == <<1, 2>>

max_aspect_ratio == <<7, 2>>

min_file_size == 50 * 1024

max_file_size == 50 * 1024 * 1024

\* The images validate_wallpaper is called with: those of every decoded
\* size, and bytes that are no image.
Pictures == {"A", "B", "C", "W", "X"} \cup DOMAIN Sizes

\* st_size: "K" is a file of 40 KB, "G" one of 60 MB.
FileSize(c) == CASE c = "K" -> 40 * 1024 [] c = "G" -> 60 * 1024 * 1024
                 [] OTHER -> 500 * 1024

\* img.format and img.mode.
Format(c) == IF c = "G" THEN "TIFF" ELSE "JPEG"

Mode(c) == CASE c = "M" -> "L" [] c = "T" -> "P" [] OTHER -> "RGB"

\* The statistics _analyze_image_quality computes: the mean and the
\* standard deviation of the brightness, and the variance of the Laplacian.
MeanBrightness(c) == CASE c = "C" -> 10 [] c = "V" -> 240 [] OTHER -> 128

StddevBrightness(c) == IF c = "Z" THEN 5 ELSE 60

LaplacianVariance(c) == IF c = "Y" THEN 50 ELSE 500

\* imagehash.phash: a hash of 64 bits, here the set of the bits that are 1.
\* "C" is "A" at another size, 5 bits away from it, and "M" is 6 bits from
\* "A" and 1 bit from "C"; "Y" has the hash of "V", and "Z" is 1 bit from
\* both; the others are far from everything.
PHash(c) == CASE c = "A" -> {}
              [] c = "C" -> 1..5
              [] c = "M" -> 1..6
              [] c = "V" -> 21..30
              [] c = "Y" -> 21..30
              [] c = "Z" -> 21..31
              [] c = "T" -> 11..20
              [] OTHER -> 41..50

\* current_hash - known_hash: the number of bits that differ.
Hamming(h1, h2) == Cardinality((h1 \ h2) \cup (h2 \ h1))

\* _is_duplicate: the greatest Hamming distance of a near duplicate.
MaxDistance == 5

\* _is_duplicate without the search for similar hashes.
is_duplicate_ExactOnly(qf, c) ==
    IF Md5(c) \in qf.known_hashes \/ PHash(c) \in qf.known_phashes
    THEN [qf |-> qf, ret |-> TRUE]
    ELSE [qf |-> [known_hashes |-> qf.known_hashes \cup {Md5(c)},
                  known_phashes |-> qf.known_phashes \cup {PHash(c)}],
          ret |-> FALSE]

\* _is_duplicate: it remembers the hashes of what it found no duplicate.
is_duplicate(qf, c) ==
    IF Md5(c) \in qf.known_hashes THEN [qf |-> qf, ret |-> TRUE]
    ELSE IF PHash(c) \in qf.known_phashes THEN [qf |-> qf, ret |-> TRUE]
    ELSE IF \E known_phash \in qf.known_phashes :
                Hamming(PHash(c), known_phash) <= MaxDistance
         THEN [qf |-> qf, ret |-> TRUE]
    ELSE [qf |-> [known_hashes |-> qf.known_hashes \cup {Md5(c)},
                  known_phashes |-> qf.known_phashes \cup {PHash(c)}],
          ret |-> FALSE]

\* The resolution and the aspect ratio checks of validate_wallpaper:
\* width / height < 1/2 is 2 * width < height, and width / height > 7/2 is
\* 2 * width > 7 * height.
LowResolution(c) == Width(c) < min_width \/ Height(c) < min_height

InvalidAspectRatio(c) ==
    \/ min_aspect_ratio[2] * Width(c) < min_aspect_ratio[1] * Height(c)
    \/ max_aspect_ratio[2] * Width(c) > max_aspect_ratio[1] * Height(c)

\* The errors of the two checks, in the order they are appended.
BasicErrors_NoResolution(c) ==
    IF InvalidAspectRatio(c) THEN <<"aspect_ratio">> ELSE <<>>

BasicErrors(c) ==
    (IF LowResolution(c) THEN <<"resolution">> ELSE <<>>)
      \o (IF InvalidAspectRatio(c) THEN <<"aspect_ratio">> ELSE <<>>)

\* The warnings about the file, the format and the colour mode.
BasicWarnings(c) ==
    (IF FileSize(c) > max_file_size THEN <<"large_file">> ELSE <<>>)
      \o (IF Format(c) \notin {"JPEG", "PNG", "WEBP", "BMP"}
          THEN <<"format">> ELSE <<>>)
      \o (IF Mode(c) \in {"RGB", "RGBA"} THEN <<>>
          ELSE IF Mode(c) \in {"L", "LA"} THEN <<"grayscale">>
          ELSE <<"mode">>)

\* The warnings from _analyze_image_quality; the blur is looked for in
\* strict mode only.
QualityWarnings(c, strict_mode) ==
    (IF strict_mode /\ LaplacianVariance(c) < 100 THEN <<"blurry">> ELSE <<>>)
      \o (IF MeanBrightness(c) < 30 THEN <<"dark">> ELSE <<>>)
      \o (IF MeanBrightness(c) > 220 THEN <<"bright">> ELSE <<>>)
      \o (IF StddevBrightness(c) < 20 THEN <<"low_contrast">> ELSE <<>>)

\* The overall validity, were it true whatever the errors.
Validity_Always(errors) == TRUE

\* result['valid'] = len(result['errors']) == 0
Validity(errors) == Len(errors) = 0

\* The result with 'valid' as it is initialised, for the early returns.
Invalid(errors, warnings) ==
    [valid |-> FALSE, errors |-> errors, warnings |-> warnings]

\* validate_wallpaper, on the QualityFilter qf: the filter afterwards and
\* the result, of which the metrics and the recommendations, which nothing
\* reads, are left out.
validate_wallpaper(qf, image_path, strict_mode) ==
    LET c == image_path.content
    IN  IF ~image_path.exists
        THEN [qf |-> qf, ret |-> Invalid(<<"missing">>, <<>>)]
        ELSE IF FileSize(c) < min_file_size
        THEN [qf |-> qf, ret |-> Invalid(<<"file_too_small">>, <<>>)]
        ELSE IF ~Decodable(c)
        THEN [qf |-> qf,
              ret |-> Invalid(<<"exception">>,
                              IF FileSize(c) > max_file_size
                              THEN <<"large_file">> ELSE <<>>)]
        ELSE IF BasicErrors(c) # <<>>
        THEN [qf |-> qf,
              ret |-> [valid |-> Validity(BasicErrors(c)),
                       errors |-> BasicErrors(c),
                       warnings |-> BasicWarnings(c)]]
        ELSE LET dup == is_duplicate(qf, c)
                 errors == IF dup.ret THEN <<"duplicate">> ELSE <<>>
             IN  [qf |-> dup.qf,
                  ret |-> [valid |-> Validity(errors),
                           errors |-> errors,
                           warnings |-> BasicWarnings(c)
                                          \o QualityWarnings(c, strict_mode)]]

\* The files validate_wallpaper is called with.
PictureFiles == [exists : {TRUE}, name : SourceNames, content : Pictures]
                  \cup [exists : {FALSE}, name : SourceNames, content : {"A"}]

\* validate_wallpaper on the one QualityFilter.
ValidateWallpaper ==
    \E image_path \in PictureFiles, strict_mode \in BOOLEAN :
        LET r == validate_wallpaper(quality_filter, image_path, strict_mode)
        IN  /\ quality_filter' = r.qf
            /\ ret' = r.ret
            /\ call' = [op |-> "validate_wallpaper",
                        arg |-> <<image_path, strict_mode>>]
            /\ validated' = IF r.ret.valid
                            THEN validated \cup {image_path.content}
                            ELSE validated
            /\ scenario' = Follows(call')
            /\ UNCHANGED <<files, metadata, known_hashes, disk, unwritable, now,
                           download_queue, thread, gui, requests, signals,
                           peer>>

\* A QualityFilter validating the files it is shown.
NextQuality ==
    \/ ValidateWallpaper

SpecQuality == Init /\ [][NextQuality]_vars

\* C22: validate_wallpaper of a file that decodes to an image of width
\* below 1280 or height below 720 returns valid = false and errors that are
\* not empty, and store_wallpaper of the same file, under every directory
\* and with every metadata, returns None and changes nothing.
C22_LowResolutionRejected ==
    [][(/\ call'.op = "validate_wallpaper"
        /\ call'.arg[1].exists
        /\ Decodable(call'.arg[1].content)
        /\ (\/ Width(call'.arg[1].content) < 1280
            \/ Height(call'.arg[1].content) < 720))
       => /\ ret'.valid = FALSE
          /\ ret'.errors # <<>>
          /\ \A source_type \in Directories, md \in Metadatas :
                store_wallpaper(St', call'.arg[1], source_type, md, now')
                  = [st |-> St', ret |-> None]]_vars

\* C22's case: an image as wide as asked and one row too low (1280x719)
\* was validated by a filter that had already found an image valid.
C22_Witness ==
    /\ call.op = "validate_wallpaper"
    /\ call.arg[1].exists
    /\ Width(call.arg[1].content) >= 1280
    /\ Height(call.arg[1].content) = 719
    /\ validated # {}
    /\ ret.valid = FALSE

\* An error or a warning is in the list.
Has(list, entry) == \E i \in 1..Len(list) : list[i] = entry

\* C23: validate_wallpaper of an image of at least 1280x720 reports the
\* aspect ratio exactly when width / height is below 0.5 or above 3.5, and
\* store_wallpaper of the same file refuses it exactly when validate_wallpaper
\* reports the aspect ratio.
C23_AspectRatioAgreed ==
    [][(/\ call'.op = "validate_wallpaper"
        /\ call'.arg[1].exists
        /\ Decodable(call'.arg[1].content)
        /\ FileSize(call'.arg[1].content) >= min_file_size
        /\ Width(call'.arg[1].content) >= 1280
        /\ Height(call'.arg[1].content) >= 720)
       => /\ Has(ret'.errors, "aspect_ratio")
               <=> (\/ 2 * Width(call'.arg[1].content)
                         < Height(call'.arg[1].content)
                    \/ 2 * Width(call'.arg[1].content)
                         > 7 * Height(call'.arg[1].content))
          /\ \A source_type \in Directories, md \in Metadatas :
                Has(ret'.errors, "aspect_ratio")
                  <=> store_wallpaper(St', call'.arg[1], source_type, md,
                                      now').ret = None]_vars

\* C24: whatever validate_wallpaper returns, on each of its return paths,
\* valid is true exactly when the list of errors is empty, whatever the
\* warnings are.
C24_ValidIffNoErrors ==
    call.op = "validate_wallpaper" => (ret.valid <=> ret.errors = <<>>)

\* C24's case: an image was found valid with two warnings (the file is
\* large and of an unusual format).
C24_Witness ==
    /\ call.op = "validate_wallpaper"
    /\ ret.valid
    /\ Len(ret.warnings) >= 2

\* The file passes the checks validate_wallpaper makes before it looks for
\* a duplicate: it exists, is of 50 KB or more, decodes, and is of an
\* accepted resolution and aspect ratio.
PassesChecks(image_path) ==
    /\ image_path.exists
    /\ FileSize(image_path.content) >= 50 * 1024
    /\ Decodable(image_path.content)
    /\ Width(image_path.content) >= 1280
    /\ Height(image_path.content) >= 720
    /\ 2 * Width(image_path.content) >= Height(image_path.content)
    /\ 2 * Width(image_path.content) <= 7 * Height(image_path.content)

\* The image is the same as, or near to, one of those in the set: the
\* bytes are equal, or at most 5 bits of the perceptual hashes differ.
NearOneOf(c, seen) ==
    \E p \in seen :
        \/ Md5(p) = Md5(c)
        \/ Cardinality((PHash(p) \ PHash(c)) \cup (PHash(c) \ PHash(p))) <= 5

C25_WitnessFar ==
    /\ call.op = "validate_wallpaper"
    /\ call.arg[1].content = "M"
    /\ validated = {"A", "M"}
    /\ ret.valid

\* C27: in every state reached by store_wallpaper, delete_wallpaper,
\* delete_multiple_wallpapers, cleanup_old_wallpapers and the removal of
\* files from outside, known_hashes is the set of the hashes of the records
\* in the catalog.
C27_KnownHashesAreRecordHashes ==
    known_hashes = {r.hash : r \in Records}

(* ---------------------- WallpaperDownloadWorker ----------------------- *)

\* The most calls of add_download in a run of the model.
MaxRequests == 2

\* The wallpapers of the gallery's cards (wallpaper_data['id']).
GalleryIds == {"abc123", "xyz789"}

\* The name download_wallpaper gives the file of a wallpaper,
\* wallhaven_{id}_{resolution}.{ext}, and the bytes the server sends.
DownloadName(w) == IF w = "abc123" THEN <<"a">> ELSE <<"b">>

Bytes(w) == IF w = "abc123" THEN "A" ELSE "C"

\* What the request of download_wallpaper gets: nothing (a
\* RequestException), or the bytes.
Responses(w) == {None, Some(Bytes(w))}

\* WallhavenClient.download_wallpaper(wallpaper, check_duplicates=False):
\* with no save_path it writes into the 'wallhaven' directory of the
\* catalog, and returns the path of a file that is already there.
download_wallpaper(st, w, response) ==
    LET file_path == [dir |-> "wallhaven", name |-> DownloadName(w)]
    IN  IF Exists(st.files, file_path) THEN [st |-> st, ret |-> Some(file_path)]
        ELSE IF response = None \/ WriteFails(st, file_path)
        THEN [st |-> st, ret |-> None]
        ELSE [st |-> [st EXCEPT !.files = Copy(st.files, file_path, response[1])],
              ret |-> Some(file_path)]

\* The wallpaper is in the collection: list_wallpapers('wallhaven') has a
\* record with its 'wallpaper_id'.
InCollection(st, w) ==
    LET existing_wallpapers == list_wallpapers(st, Some("wallhaven"))
    IN  \E k \in 1..Len(existing_wallpapers) :
            existing_wallpapers[k].metadata.wallpaper_id = Some(w)

\* The body of the loop of run for one wallpaper: the state afterwards and
\* the signal emitted.
RunBody(st, w, response, t) ==
    IF InCollection(st, w) THEN [st |-> st, ret |-> "download_skipped"]
    ELSE LET d == download_wallpaper(st, w, response)
         IN  IF d.ret = None THEN [st |-> d.st, ret |-> "download_error"]
             ELSE LET src == [exists |-> TRUE, name |-> d.ret[1].name,
                              content |-> d.st.files[d.ret[1]]]
                      s == store_wallpaper(d.st, src, "wallhaven",
                                           GalleryMetadata(w), t)
                  IN  [st |-> s.st,
                       ret |-> IF s.ret # None THEN "download_finished"
                               ELSE "download_error"]

\* What the worker's steps leave alone.
catalog == <<files, metadata, known_hashes, disk, unwritable, now>>

\* add_download, called by on_single_download_requested and, for each
\* selected card, by download_selected_wallpapers.  'request' numbers the
\* calls: each wallpaper_data is a dict of its own.
AddDownload ==
    /\ requests < MaxRequests
    /\ \E w \in GalleryIds :
        /\ download_queue' = Append(download_queue,
                                    [id |-> w, request |-> requests + 1])
        /\ call' = [op |-> "add_download", arg |-> <<w>>]
    /\ requests' = requests + 1
    /\ gui' = "added"
    /\ ret' = None
    /\ scenario' = Follows(call')
    /\ UNCHANGED <<catalog, peer, quality_filter, validated, thread, signals>>

\* if not self.download_worker.isRunning(): self.download_worker.start()
StartIfNotRunning ==
    /\ gui = "added"
    /\ gui' = "idle"
    /\ thread' = IF thread.pc = "idle" THEN [pc |-> "loop", i |-> 0] ELSE thread
    /\ call' = [op |-> "start", arg |-> <<>>]
    /\ ret' = None
    /\ scenario' = Follows(call')
    /\ UNCHANGED <<catalog, peer, quality_filter, validated, download_queue, requests,
                   signals>>

\* run: the loop takes the next item of the list, which is there if the
\* list is longer than the number of items taken, and emits one signal.
RunItem ==
    /\ thread.pc = "loop"
    /\ thread.i < Len(download_queue)
    /\ LET wallpaper_data == download_queue[thread.i + 1]
       IN  /\ \E response \in Responses(wallpaper_data.id) :
                LET r == RunBody(St, wallpaper_data.id, response, now)
                IN  /\ Returns([st |-> r.st, ret |-> None])
                    /\ signals' = Append(signals,
                                         [request |-> wallpaper_data.request,
                                          signal |-> r.ret])
           /\ call' = [op |-> "run", arg |-> <<wallpaper_data.id>>]
    /\ now' = IF metadata'.stats.total_downloads # metadata.stats.total_downloads
              THEN now + 1 ELSE now
    /\ thread' = [thread EXCEPT !.i = @ + 1]
    /\ scenario' = Follows(call')
    /\ UNCHANGED <<peer, quality_filter, validated, download_queue, gui, requests>>

\* run: the loop finds the list no longer than the number of items taken,
\* and ends.
RunExhausted ==
    /\ thread.pc = "loop"
    /\ thread.i >= Len(download_queue)
    /\ thread' = [thread EXCEPT !.pc = "clear"]
    /\ call' = [op |-> "run_exhausted", arg |-> <<>>]
    /\ ret' = None
    /\ scenario' = Follows(call')
    /\ UNCHANGED <<catalog, peer, quality_filter, validated, download_queue, gui,
                   requests, signals>>

\* run: self.download_queue.clear(), after the final status update.
RunClear ==
    /\ thread.pc = "clear"
    /\ download_queue' = <<>>
    /\ thread' = [pc |-> "returned", i |-> 0]
    /\ call' = [op |-> "run_clear", arg |-> <<>>]
    /\ ret' = None
    /\ scenario' = Follows(call')
    /\ UNCHANGED <<catalog, peer, quality_filter, validated, gui, requests, signals>>

\* The thread ends after run returned: from here on isRunning() is false.
ThreadFinished ==
    /\ thread.pc = "returned"
    /\ thread' = [pc |-> "idle", i |-> 0]
    /\ call' = [op |-> "finished", arg |-> <<>>]
    /\ ret' = None
    /\ scenario' = Follows(call')
    /\ UNCHANGED <<catalog, peer, quality_filter, validated, download_queue, gui,
                   requests, signals>>

\* The gallery's download requests and its worker thread.
NextDownloads ==
    \/ AddDownload
    \/ StartIfNotRunning
    \/ RunItem
    \/ RunExhausted
    \/ RunClear
    \/ ThreadFinished

SpecDownloads == Init /\ [][NextDownloads]_vars

\* The same with the scheduling of the two threads: a thread that can take
\* its next step takes it; nothing makes the user ask for a download.
SpecDownloadsFair ==
    /\ Init
    /\ [][NextDownloads]_vars
    /\ WF_vars(StartIfNotRunning)
    /\ WF_vars(RunItem)
    /\ WF_vars(RunExhausted)
    /\ WF_vars(RunClear)
    /\ WF_vars(ThreadFinished)

\* The files under the category directories that hold the bytes c.
Holding(fs, c) == {p \in DOMAIN fs : p.dir \in Directories /\ fs[p] = c}

\* C26: when the worker's loop processes a wallpaper that is not in the
\* collection, and of which no file is in the directories, and emits
\* download_finished, exactly one file under the category directories holds
\* the wallpaper's bytes afterwards; and a wallpaper that is in the
\* collection is skipped, and no file is written.
C26_DownloadMakesOneFile ==
    [][call'.op = "run"
       => /\ (/\ ~InCollection(St, call'.arg[1])
              /\ Holding(files, Bytes(call'.arg[1])) = {}
              /\ signals'[Len(signals')].signal = "download_finished")
             => Cardinality(Holding(files', Bytes(call'.arg[1]))) = 1
          /\ InCollection(St, call'.arg[1])
             => /\ signals'[Len(signals')].signal = "download_skipped"
                /\ files' = files]_vars

\* The number of signals emitted for the n-th wallpaper passed to
\* add_download.
SignalsFor(n) == Cardinality({k \in 1..Len(signals) : signals[k].request = n})

\* C29: every wallpaper passed to add_download is, from then on, eventually
\* answered by one of download_finished, download_error and
\* download_skipped, and never by more than one.
C29_EveryRequestSignalled ==
    /\ [](\A n \in 1..MaxRequests : SignalsFor(n) <= 1)
    /\ \A n \in 1..MaxRequests : (requests >= n) ~> (SignalsFor(n) = 1)

(* ------------------- ImageManagers on one base path ------------------- *)

\* load_metadata: what .metadata.json holds, or the default record if
\* there is no such file.  json.dump and json.load give back the strings,
\* the integers and the order of the keys that were written.
load_metadata(d) ==
    IF d = None
    THEN [wallpapers |-> <<>>,
          stats |-> [total_downloads |-> 0, by_source |-> <<>>]]
    ELSE d[1]

\* load_known_hashes loading nothing.
load_known_hashes_Nothing(md) == {}

\* load_known_hashes: the 'hash' of every record.
load_known_hashes(md) ==
    {md.wallpapers[i].hash : i \in 1..Len(md.wallpapers)}

\* The state the second ImageManager works on: its own metadata and
\* known_hashes, and the files and the metadata file of the base path.
StPeer == [files |-> files, metadata |-> peer.metadata,
          known_hashes |-> peer.known_hashes, disk |-> disk,
          unwritable |-> unwritable]

\* The state after a call of the second ImageManager that returned r.
PeerReturns(r) ==
    /\ files' = r.st.files
    /\ peer' = [metadata |-> r.st.metadata, known_hashes |-> r.st.known_hashes]
    /\ disk' = r.st.disk
    /\ unwritable' = r.st.unwritable
    /\ ret' = r.ret

\* What the calls of the second ImageManager leave alone.
elsewhere == <<metadata, known_hashes, quality_filter, validated,
              download_queue, thread, gui, requests, signals>>

\* ImageManager(): a second instance is constructed on the base path, as
\* the generator's DownloadWorker, the source selector and the galleries
\* each construct their own.
NewImageManager ==
    /\ peer' = [metadata |-> load_metadata(disk),
                known_hashes |-> load_known_hashes(load_metadata(disk))]
    /\ call' = [op |-> "ImageManager", arg |-> <<>>]
    /\ ret' = None
    /\ scenario' = Follows(call')
    /\ UNCHANGED <<files, disk, unwritable, now, elsewhere>>

\* The most records the two instances write in a run of the model.
MaxRecords == 2

\* store_wallpaper of the second instance.
PeerStoreWallpaper ==
    /\ now < MaxRecords
    /\ \E src \in SourceFiles, kind \in StoreKinds :
        /\ PeerReturns(store_wallpaper(StPeer, src, kind[1], kind[2], now))
        /\ call' = [op |-> "peer.store_wallpaper",
                    arg |-> <<src, kind[1], kind[2]>>]
        /\ scenario' = Follows(call')
    /\ now' = IF peer'.metadata.stats.total_downloads
                   # peer.metadata.stats.total_downloads
              THEN now + 1 ELSE now
    /\ UNCHANGED elsewhere

\* The ids the second instance tries to delete.
PeerIdsTried ==
    {peer.metadata.wallpapers[i].id : i \in 1..Len(peer.metadata.wallpapers)}

\* delete_wallpaper of the second instance.
PeerDeleteWallpaper ==
    /\ \E wallpaper_id \in PeerIdsTried :
        /\ PeerReturns(delete_wallpaper(StPeer, wallpaper_id))
        /\ call' = [op |-> "peer.delete_wallpaper", arg |-> <<wallpaper_id>>]
        /\ scenario' = Follows(call')
    /\ UNCHANGED <<now, elsewhere>>

\* cleanup_old_wallpapers of the second instance.
PeerCleanupOldWallpapers ==
    /\ \E max_total \in 0..MaxKeep :
        /\ PeerReturns(cleanup_old_wallpapers(StPeer, max_total))
        /\ call' = [op |-> "peer.cleanup_old_wallpapers", arg |-> <<max_total>>]
        /\ scenario' = Follows(call')
    /\ UNCHANGED <<now, elsewhere>>

\* store_wallpaper of the first instance, in the runs of the two.
StoreWallpaperFirst ==
    /\ now < MaxRecords
    /\ StoreWallpaper

\* Two ImageManagers at work on one base path.
NextInstances ==
    \/ StoreWallpaperFirst
    \/ DeleteWallpaper
    \/ NewImageManager
    \/ PeerStoreWallpaper
    \/ PeerDeleteWallpaper
    \/ PeerCleanupOldWallpapers

SpecInstances == Init /\ [][NextInstances]_vars

\* The ids of the records in the metadata file.
Persisted(d) ==
    {load_metadata(d).wallpapers[i].id : i \in 1..Len(load_metadata(d).wallpapers)}

\* The ids of the records of a catalog.
IdsOf(wps) == {wps[i].id : i \in 1..Len(wps)}

\* C28: whatever one ImageManager persists, every record that was in the
\* metadata file before is in it afterwards, unless the call removed that
\* record from the caller's own catalog (a deletion or an eviction).
C28_NoLostUpdate ==
    [][\A id \in Persisted(disk) :
          \/ id \in Persisted(disk')
          \/ id \in IdsOf(metadata.wallpapers) \ IdsOf(metadata'.wallpapers)
          \/ id \in IdsOf(peer.metadata.wallpapers)
                      \ IdsOf(peer'.metadata.wallpapers)]_vars

\* The second ImageManager is as its constructor built it from the metadata
\* file as it is now.
Rebuilt ==
    /\ peer.metadata = load_metadata(disk)
    /\ peer.known_hashes = load_known_hashes(load_metadata(disk))

\* The records of the metadata file that carry the hash of the bytes c and
\* whose file exists.
LiveEntries(c) ==
    {r \in {load_metadata(disk).wallpapers[i] :
              i \in 1..Len(load_metadata(disk).wallpapers)} :
        r.hash = Md5(c) /\ Exists(files, r.path)}

\* No record of the metadata file carries the hash of the bytes c.
NoEntry(c) ==
    \A i \in 1..Len(load_metadata(disk).wallpapers) :
        load_metadata(disk).wallpapers[i].hash # Md5(c)

\* C30: an ImageManager built from the persisted record, asked to store a
\* valid image under one of its directories, returns the path of a live
\* entry with the same bytes, if there is one, and copies and records
\* nothing; and if no entry carries those bytes (the entry that did was
\* deleted), it creates a new file and a new record, and persists it.
C30_RebuiltFromPersistedRecord ==
    [][(/\ call'.op = "peer.store_wallpaper"
        /\ Rebuilt
        /\ call'.arg[1].exists
        /\ call'.arg[2] \in Directories
        /\ ~FailsValidation(call'.arg[1].content))
       => /\ LiveEntries(call'.arg[1].content) # {}
               => /\ ret' \in {Some(r.path) : r \in LiveEntries(call'.arg[1].content)}
                  /\ UNCHANGED <<files, disk, peer>>
          /\ NoEntry(call'.arg[1].content)
               => /\ ret' # None
                  /\ ~Exists(files, ret'[1])
                  /\ Exists(files', ret'[1])
                  /\ files'[ret'[1]] = call'.arg[1].content
                  /\ \E i \in 1..Len(peer'.metadata.wallpapers) :
                        /\ peer'.metadata.wallpapers[i].path = ret'[1]
                        /\ peer'.metadata.wallpapers[i].hash
                             = Md5(call'.arg[1].content)
                  /\ disk' = Some(peer'.metadata)]_vars

\* C30's case: the first instance stored an image, which its catalog still
\* shows; the entry and its file were then deleted through the second
\* instance, which had been built from the persisted record; and the second
\* instance, its catalog that of the persisted record, stored the same
\* bytes anew under the name that had become free, as the second record
\* ever written.
C30_Witness ==
    /\ call.op = "peer.store_wallpaper"
    /\ ret # None
    /\ now = 2
    /\ Len(peer.metadata.wallpapers) = 1
    /\ peer.metadata.wallpapers[1].added_date = 1
    /\ peer.metadata.wallpapers[1].hash = Md5(call.arg[1].content)
    /\ \E i \in 1..Len(metadata.wallpapers) :
          /\ metadata.wallpapers[i].hash = Md5(call.arg[1].content)
          /\ metadata.wallpapers[i].path = peer.metadata.wallpapers[1].path
          /\ metadata.wallpapers[i].added_date = 0
    /\ disk = Some(peer.metadata)

\* C30's other case: an instance built from the persisted record was handed
\* the bytes of the one entry, which the first instance had stored, and
\* returned the entry's path; one record was ever written.
C30_WitnessLive ==
    /\ call.op = "peer.store_wallpaper"
    /\ ret # None
    /\ now = 1
    /\ Len(metadata.wallpapers) = 1
    /\ ret = Some(metadata.wallpapers[1].path)
    /\ peer.metadata = metadata
    /\ metadata.wallpapers[1].hash = Md5(call.arg[1].content)

====
